---- MODULE Spec2Model ----
(***************************************************************************)
(* Model of evaluate_species_prediction.py: the construction of the        *)
(* (protein, threshold) confusion-matrix table.                            *)
(*                                                                         *)
(* Protein and term identifiers are strings.  A confidence score is a      *)
(* level 1..MaxScore of an ordered grid (level k stands for k / MaxScore); *)
(* the code only compares scores (>=, ==, sorted), so the order is all     *)
(* that matters.  A Python dict is a function; a dict whose key order the  *)
(* code uses (protein_annotations) is a sequence of <<key, value>> items.  *)
(* A DataFrame is the sequence of its rows, each row a record.             *)
(***************************************************************************)
EXTENDS Integers, Sequences, FiniteSets, TLC

VARIABLES
    prediction_dict,                 \* protein -> (term -> score)
    benchmark_dict,                  \* the benchmark record
    rowIsView,                       \* does df.loc[p, t] alias the frame's data?
    pc,                              \* position in get_confusion_matrix_dataframe
    distinct_prediction_thresholds,  \* local of get_confusion_matrix_dataframe
    benchmark_proteins,              \* local of get_confusion_matrix_dataframe
    protein_and_threshold_df,        \* the table under construction
    ti,                              \* position of the outer (threshold) loop
    pi,                              \* position of the inner (protein) loop
    filled,                          \* keys whose loop body has run
    raised                           \* the exception that ended the call, or None

vars == <<prediction_dict, benchmark_dict, rowIsView, pc,
          distinct_prediction_thresholds, benchmark_proteins,
          protein_and_threshold_df, ti, pi, filled, raised>>

----------------------------------------------------------------------------
(* Bounds of the model *)

MaxScore == 2

MaxAnnot == 2

MaxTermCount == 3

MaxSeqLen == 3

ProteinIds == {"P1", "P2"}

TermIds == {"GO1", "GO2"}

Scores == 1..MaxScore

None == "None"

EmptyDict == <<>>

----------------------------------------------------------------------------
(* Python built-ins the code uses *)

SeqsUpTo(S, n) == UNION {[1..k -> S] : k \in 0..n}

IsInjective(s) == \A i, j \in DOMAIN s : i # j => s[i] # s[j]

DistinctSeqs(S) == {s \in SeqsUpTo(S, Cardinality(S)) : IsInjective(s)}

DictGet(d, k, default) == IF k \in DOMAIN d THEN d[k] ELSE default

SetOf(s) == {s[i] : i \in DOMAIN s}

RECURSIVE sorted(_)
sorted(S) ==
    IF S = {} THEN <<>>
    ELSE LET m == CHOOSE x \in S : \A y \in S : x <= y
         IN  <<m>> \o sorted(S \ {m})

Keys(items) == [i \in DOMAIN items |-> items[i][1]]

ItemsGet(items, k) ==
    LET i == CHOOSE j \in DOMAIN items : items[j][1] = k IN items[i][2]

\* The outcome of a call: a returned value, or the exception it raised.
Return(v) == [exc |-> None, value |-> v]

Raise(e) == [exc |-> e, value |-> <<>>]

IsException(r) == r.exc # None

----------------------------------------------------------------------------
(* initialize_proteins_and_thresholds_dataframe *)

\* A variant of NumRows: the row count taken as the sum of the two lengths.
NumRowsSum(proteins, thresholds) == Len(proteins) + Len(thresholds)

NumRows(proteins, thresholds) == Len(proteins) * Len(thresholds)

\* np.zeros((n, 6)) cast by astype: str(0.0) in "protein", 0.0 in "threshold",
\* integer 0 in tp, fp, fn, tn.
ZeroFrame(n) ==
    [i \in 1..n |-> [protein |-> "0.0", threshold |-> 0,
                     tp |-> 0, fp |-> 0, fn |-> 0, tn |-> 0]]

\* The loop over range(0, shape[0]); i and benchmark_protein_index are 0-based
\* as in the code, sequences are 1-based.
RECURSIVE PopulateKeys(_, _, _, _, _)
PopulateKeys(df, i, benchmark_protein_index, proteins, thresholds) ==
    IF i >= Len(df) THEN Return(df)
    ELSE IF Len(thresholds) = 0 THEN Raise("ZeroDivisionError")
    ELSE LET threshold_index == i % Len(thresholds)
             next_index == IF threshold_index = 0
                           THEN benchmark_protein_index + 1
                           ELSE benchmark_protein_index
         IN  IF next_index >= Len(proteins) THEN Raise("IndexError")
             ELSE PopulateKeys(
                    [df EXCEPT ![i + 1].protein = proteins[next_index + 1],
                               ![i + 1].threshold = thresholds[threshold_index + 1]],
                    i + 1, next_index, proteins, thresholds)

\* A variant of the initializer: benchmark_protein_index starts at 0, not -1.
initialize_StartAtZero(proteins, thresholds) ==
    PopulateKeys(ZeroFrame(NumRows(proteins, thresholds)), 0, 0,
                 proteins, thresholds)

initialize_proteins_and_thresholds_dataframe(proteins, thresholds) ==
    PopulateKeys(ZeroFrame(NumRows(proteins, thresholds)), 0, -1,
                 proteins, thresholds)

----------------------------------------------------------------------------
(* get_confusion_matrix_terms, calculate_confusion_matrix *)

get_confusion_matrix_terms(predicted_terms, benchmark_terms) ==
    [TP |-> predicted_terms \cap benchmark_terms,
     FP |-> predicted_terms \ benchmark_terms,
     FN |-> benchmark_terms \ predicted_terms]

calculate_confusion_matrix(predicted_terms, benchmark_terms) ==
    LET cm_terms == get_confusion_matrix_terms(predicted_terms, benchmark_terms)
    IN  [TP |-> Cardinality(cm_terms.TP),
         FP |-> Cardinality(cm_terms.FP),
         FN |-> Cardinality(cm_terms.FN)]

----------------------------------------------------------------------------
(* get_confusion_matrix_dataframe *)

\* A variant of ExtractThresholds: the complete range of possible thresholds
\* instead of the scores that occur in the predictions.
ExtractThresholdsFullRange(predictions) == sorted(Scores)

ExtractThresholds(predictions) ==
    sorted(UNION {{predictions[p][k] : k \in DOMAIN predictions[p]} :
                  p \in DOMAIN predictions})

\* A variant of PredictedAnnotations: the comparison reversed.
PredictedAnnotationsReversed(predicted_terms, threshold) ==
    {k \in DOMAIN predicted_terms : predicted_terms[k] <= threshold}

PredictedAnnotations(predicted_terms, threshold) ==
    {k \in DOMAIN predicted_terms : predicted_terms[k] >= threshold}

TrueNegative(term_count, conf_matrix) ==
    term_count - (conf_matrix.TP + conf_matrix.FP + conf_matrix.FN)

\* A variant of CellValues: a missing term count counted as 0.
CellValuesNoneAsZero(predictions, benchmark, protein, threshold) ==
    LET predicted_terms == DictGet(predictions, protein, EmptyDict)
        predicted_annotations == PredictedAnnotations(predicted_terms, threshold)
        benchmark_protein_annotation ==
            SetOf(ItemsGet(benchmark.protein_annotations, protein))
        conf_matrix == calculate_confusion_matrix(predicted_annotations,
                                                  benchmark_protein_annotation)
    IN  Return([tp |-> conf_matrix.TP, fp |-> conf_matrix.FP,
                fn |-> conf_matrix.FN,
                tn |-> TrueNegative(
                         DictGet(benchmark, "benchmark_ontology_term_count", 0),
                         conf_matrix)])

\* The body of the nested loop up to the writes: the four values of one cell,
\* or TypeError when the term count is None (None - int).
CellValues(predictions, benchmark, protein, threshold) ==
    LET predicted_terms == DictGet(predictions, protein, EmptyDict)
        predicted_annotations == PredictedAnnotations(predicted_terms, threshold)
        benchmark_protein_annotation ==
            SetOf(ItemsGet(benchmark.protein_annotations, protein))
        conf_matrix == calculate_confusion_matrix(predicted_annotations,
                                                  benchmark_protein_annotation)
    IN  IF "benchmark_ontology_term_count" \notin DOMAIN benchmark
        THEN Raise("TypeError")
        ELSE Return([tp |-> conf_matrix.TP, fp |-> conf_matrix.FP,
                     fn |-> conf_matrix.FN,
                     tn |-> TrueNegative(benchmark.benchmark_ontology_term_count,
                                         conf_matrix)])

\* df.loc[protein, threshold]: the positions of the rows with that key.
Loc(df, protein, threshold) ==
    {i \in DOMAIN df : df[i].protein = protein /\ df[i].threshold = threshold}

\* A variant of WriteRow: df.loc[protein] in place of df.loc[protein, threshold],
\* so the write lands on every row of the protein.
WriteRowWholeProtein(df, protein, threshold, values, isView) ==
    IF ~isView THEN df
    ELSE [i \in DOMAIN df |->
            IF df[i].protein = protein
            THEN [df[i] EXCEPT !.tp = values.tp, !.fp = values.fp,
                               !.fn = values.fn, !.tn = values.tn]
            ELSE df[i]]

\* df.loc[protein, threshold].tp = ... (and fp, fn, tn): the assignment goes to
\* the row object that .loc returned.  It reaches the frame only if that row is
\* a view of the frame's data; if .loc returned a copy the frame is unchanged.
WriteRow(df, protein, threshold, values, isView) ==
    IF ~isView THEN df
    ELSE [i \in DOMAIN df |->
            IF i \in Loc(df, protein, threshold)
            THEN [df[i] EXCEPT !.tp = values.tp, !.fp = values.fp,
                               !.fn = values.fn, !.tn = values.tn]
            ELSE df[i]]

\* One iteration of the loop body: the frame afterwards, or the exception.
FillOne(df, predictions, benchmark, protein, threshold, isView) ==
    LET values == CellValues(predictions, benchmark, protein, threshold)
    IN  IF IsException(values) THEN values
        ELSE IF Loc(df, protein, threshold) = {} THEN Raise("KeyError")
        ELSE Return(WriteRow(df, protein, threshold, values.value, isView))

\* df.insert(0, ...) three times: ontology, taxon_id, taxon on every row.
InsertMetadataColumns(df, benchmark) ==
    [i \in DOMAIN df |->
        [ontology |-> DictGet(benchmark, "benchmark_ontology", None),
         taxon_id |-> DictGet(benchmark, "benchmark_taxon_id", None),
         taxon |-> DictGet(benchmark, "benchmark_taxon", None),
         protein |-> df[i].protein, threshold |-> df[i].threshold,
         tp |-> df[i].tp, fp |-> df[i].fp, fn |-> df[i].fn, tn |-> df[i].tn]]

\* The nested loop as the code runs it: thresholds outer, proteins inner.
RECURSIVE SequentialFill(_, _, _, _, _, _, _, _)
SequentialFill(df, predictions, benchmark, thresholds, proteins, t, p, isView) ==
    IF t > Len(thresholds) \/ Len(proteins) = 0 THEN Return(df)
    ELSE LET next == FillOne(df, predictions, benchmark,
                             proteins[p], thresholds[t], isView)
         IN  IF IsException(next) THEN next
             ELSE IF p < Len(proteins)
             THEN SequentialFill(next.value, predictions, benchmark, thresholds,
                                 proteins, t, p + 1, isView)
             ELSE SequentialFill(next.value, predictions, benchmark, thresholds,
                                 proteins, t + 1, 1, isView)

get_confusion_matrix_dataframe(predictions, benchmark, isView) ==
    LET thresholds == ExtractThresholds(predictions)
        proteins == Keys(benchmark.protein_annotations)
        empty == initialize_proteins_and_thresholds_dataframe(proteins, thresholds)
        full == SequentialFill(empty.value, predictions, benchmark, thresholds,
                               proteins, 1, 1, isView)
    IN  IF IsException(empty) THEN empty
        ELSE IF IsException(full) THEN full
        ELSE Return(InsertMetadataColumns(full.value, benchmark))

----------------------------------------------------------------------------
(* Inputs *)

TermMaps == UNION {[D -> Scores] : D \in SUBSET TermIds}

PredictionDicts == UNION {[D -> TermMaps] : D \in SUBSET ProteinIds}

TermLists == SeqsUpTo(TermIds, MaxAnnot)

AnnotationItems ==
    UNION {{[i \in DOMAIN ks |-> <<ks[i], vs[i]>>] : vs \in [DOMAIN ks -> TermLists]} :
           ks \in DistinctSeqs(ProteinIds)}

MetadataFields ==
    {"benchmark_ontology", "benchmark_ontology_term_count",
     "benchmark_taxon", "benchmark_taxon_id"}

\* The benchmark record with the metadata fields of `present` and no others.
BenchmarkDict(present, term_count, annotations) ==
    LET all == [benchmark_ontology |-> "CCO",
                benchmark_ontology_term_count |-> term_count,
                benchmark_taxon |-> "DROME",
                benchmark_taxon_id |-> 7227,
                protein_annotations |-> annotations]
    IN  [f \in present \cup {"protein_annotations"} |-> all[f]]

Locals ==
    /\ pc = "start"
    /\ distinct_prediction_thresholds = <<>>
    /\ benchmark_proteins = <<>>
    /\ protein_and_threshold_df = <<>>
    /\ ti = 1
    /\ pi = 1
    /\ filled = {}
    /\ raised = None

\* Well-formed benchmark: all metadata present.
Init ==
    /\ prediction_dict \in PredictionDicts
    /\ \E term_count \in {1, MaxTermCount}, annotations \in AnnotationItems :
          benchmark_dict = BenchmarkDict(MetadataFields, term_count, annotations)
    /\ rowIsView \in BOOLEAN
    /\ Locals

----------------------------------------------------------------------------
(* Steps of get_confusion_matrix_dataframe *)

Extract ==
    /\ pc = "start"
    /\ distinct_prediction_thresholds' = ExtractThresholds(prediction_dict)
    /\ benchmark_proteins' = Keys(benchmark_dict.protein_annotations)
    /\ pc' = "initialize"
    /\ UNCHANGED <<prediction_dict, benchmark_dict, rowIsView,
                   protein_and_threshold_df, ti, pi, filled, raised>>

Initialize ==
    /\ pc = "initialize"
    /\ LET df == initialize_proteins_and_thresholds_dataframe(
                    benchmark_proteins, distinct_prediction_thresholds)
       IN  IF IsException(df)
           THEN /\ raised' = df.exc
                /\ pc' = "raised"
                /\ UNCHANGED protein_and_threshold_df
           ELSE /\ protein_and_threshold_df' = df.value
                /\ pc' = "fill"
                /\ UNCHANGED raised
    /\ UNCHANGED <<prediction_dict, benchmark_dict, rowIsView,
                   distinct_prediction_thresholds, benchmark_proteins,
                   ti, pi, filled>>

LoopDone ==
    ti > Len(distinct_prediction_thresholds) \/ Len(benchmark_proteins) = 0

FillCell ==
    /\ pc = "fill"
    /\ ~LoopDone
    /\ LET threshold == distinct_prediction_thresholds[ti]
           protein == benchmark_proteins[pi]
           df == FillOne(protein_and_threshold_df, prediction_dict, benchmark_dict,
                         protein, threshold, rowIsView)
       IN  IF IsException(df)
           THEN /\ raised' = df.exc
                /\ pc' = "raised"
                /\ UNCHANGED <<protein_and_threshold_df, ti, pi, filled>>
           ELSE /\ protein_and_threshold_df' = df.value
                /\ filled' = filled \cup {<<protein, threshold>>}
                /\ IF pi < Len(benchmark_proteins)
                   THEN pi' = pi + 1 /\ ti' = ti
                   ELSE pi' = 1 /\ ti' = ti + 1
                /\ UNCHANGED <<pc, raised>>
    /\ UNCHANGED <<prediction_dict, benchmark_dict, rowIsView,
                   distinct_prediction_thresholds, benchmark_proteins>>

\* Lines 199-218: the metadata columns, then return.
InsertAndReturn ==
    /\ protein_and_threshold_df' =
          InsertMetadataColumns(protein_and_threshold_df, benchmark_dict)
    /\ pc' = "done"
    /\ UNCHANGED <<prediction_dict, benchmark_dict, rowIsView,
                   distinct_prediction_thresholds, benchmark_proteins,
                   ti, pi, filled, raised>>

InsertMetadata ==
    /\ pc = "fill"
    /\ LoopDone
    /\ InsertAndReturn

Next == Extract \/ Initialize \/ FillCell \/ InsertMetadata

Spec == Init /\ [][Next]_vars

----------------------------------------------------------------------------
(* The same call on benchmark records that lack metadata fields *)

InitMeta ==
    /\ prediction_dict \in {d \in PredictionDicts : DOMAIN d \subseteq {"P1"}}
    /\ \E present \in SUBSET MetadataFields, annotations \in AnnotationItems :
          benchmark_dict = BenchmarkDict(present, MaxTermCount, annotations)
    /\ rowIsView \in BOOLEAN
    /\ Locals

SpecMeta == InitMeta /\ [][Next]_vars

----------------------------------------------------------------------------
(* The fill phase with its cells handed to independent workers: the loop     *)
(* body of lines 181-196 runs once for every key, in any order.              *)

Cells ==
    {<<benchmark_proteins[p], distinct_prediction_thresholds[t]>> :
        p \in DOMAIN benchmark_proteins, t \in DOMAIN distinct_prediction_thresholds}

FillAnyCell ==
    /\ pc = "fill"
    /\ \E key \in Cells \ filled :
          LET df == FillOne(protein_and_threshold_df, prediction_dict,
                            benchmark_dict, key[1], key[2], rowIsView)
          IN  IF IsException(df)
              THEN /\ raised' = df.exc
                   /\ pc' = "raised"
                   /\ UNCHANGED <<protein_and_threshold_df, filled>>
              ELSE /\ protein_and_threshold_df' = df.value
                   /\ filled' = filled \cup {key}
                   /\ UNCHANGED <<pc, raised>>
    /\ UNCHANGED <<prediction_dict, benchmark_dict, rowIsView,
                   distinct_prediction_thresholds, benchmark_proteins, ti, pi>>

JoinAndInsertMetadata ==
    /\ pc = "fill"
    /\ filled = Cells
    /\ InsertAndReturn

NextAnyOrder == Extract \/ Initialize \/ FillAnyCell \/ JoinAndInsertMetadata

\* The inputs of the any-order runs: as Init, with duplicate-free annotation
\* lists and one term count.
InitAnyOrder ==
    /\ prediction_dict \in PredictionDicts
    /\ \E annotations \in AnnotationItems :
          /\ \A i \in DOMAIN annotations : IsInjective(annotations[i][2])
          /\ benchmark_dict = BenchmarkDict(MetadataFields, MaxTermCount, annotations)
    /\ rowIsView \in BOOLEAN
    /\ Locals

SpecAnyOrder == InitAnyOrder /\ [][NextAnyOrder]_vars

----------------------------------------------------------------------------
(* initialize_proteins_and_thresholds_dataframe called on its own, on any    *)
(* two sequences (the function validates nothing).                           *)

InitInitializer ==
    /\ benchmark_proteins \in SeqsUpTo(ProteinIds, MaxSeqLen)
    /\ distinct_prediction_thresholds \in SeqsUpTo(Scores, MaxSeqLen)
    /\ pc = "call_initializer"
    /\ prediction_dict = EmptyDict
    /\ benchmark_dict = BenchmarkDict(MetadataFields, MaxTermCount, <<>>)
    /\ rowIsView = FALSE
    /\ protein_and_threshold_df = <<>>
    /\ ti = 1
    /\ pi = 1
    /\ filled = {}
    /\ raised = None

CallInitializer ==
    /\ pc = "call_initializer"
    /\ LET df == initialize_proteins_and_thresholds_dataframe(
                    benchmark_proteins, distinct_prediction_thresholds)
       IN  IF IsException(df)
           THEN /\ raised' = df.exc
                /\ pc' = "raised"
                /\ UNCHANGED protein_and_threshold_df
           ELSE /\ protein_and_threshold_df' = df.value
                /\ pc' = "initializer_returned"
                /\ UNCHANGED raised
    /\ UNCHANGED <<prediction_dict, benchmark_dict, rowIsView,
                   distinct_prediction_thresholds, benchmark_proteins,
                   ti, pi, filled>>

SpecInitializer == InitInitializer /\ [][CallInitializer]_vars

----------------------------------------------------------------------------
(* What the claims speak of, read off the inputs and the table *)

ObservedScores ==
    UNION {{prediction_dict[p][k] : k \in DOMAIN prediction_dict[p]} :
           p \in DOMAIN prediction_dict}

BenchmarkProteinSet ==
    {benchmark_dict.protein_annotations[i][1] :
        i \in DOMAIN benchmark_dict.protein_annotations}

BenchmarkTerms(protein) ==
    LET i == CHOOSE j \in DOMAIN benchmark_dict.protein_annotations :
                 benchmark_dict.protein_annotations[j][1] = protein
    IN  {benchmark_dict.protein_annotations[i][2][n] :
            n \in DOMAIN benchmark_dict.protein_annotations[i][2]}

PredictedAt(protein, threshold) ==
    IF protein \in DOMAIN prediction_dict
    THEN {k \in DOMAIN prediction_dict[protein] :
            prediction_dict[protein][k] >= threshold}
    ELSE {}

RowKeys == {<<protein_and_threshold_df[i].protein,
              protein_and_threshold_df[i].threshold>> :
            i \in DOMAIN protein_and_threshold_df}

Rows == {protein_and_threshold_df[i] : i \in DOMAIN protein_and_threshold_df}

HasTermCount == "benchmark_ontology_term_count" \in DOMAIN benchmark_dict

NumCells == Cardinality(BenchmarkProteinSet) * Cardinality(ObservedScores)

----------------------------------------------------------------------------
(* Claims *)

\* C1: the row keys of the returned table are exactly {benchmark proteins} x
\* {observed scores}, one row per key: no row for a protein that is only
\* predicted, none for a threshold that is not an observed score.
C1_RowKeysAreProduct ==
    pc = "done" =>
        /\ RowKeys = BenchmarkProteinSet \X ObservedScores
        /\ Len(protein_and_threshold_df) = NumCells

C1_Witness ==
    /\ pc = "done"
    /\ Len(protein_and_threshold_df) >= 1
    /\ DOMAIN prediction_dict \ BenchmarkProteinSet # {}
    /\ Scores \ ObservedScores # {}

\* C2: every row of the returned table has tp + fp + fn + tn equal to
\* benchmark_ontology_term_count.
C2_RowsSumToTermCount ==
    pc = "done" =>
        \A r \in Rows :
            r.tp + r.fp + r.fn + r.tn = benchmark_dict.benchmark_ontology_term_count

\* C3: the returned row at (p, t) holds tp = |S \cap B|, fp = |S \ B|,
\* fn = |B \ S|, with B the benchmark terms of p and S the terms of p scored
\* at or above t; the rows do not keep the zeros of the initial table.
C3_RowsHoldSetCounts ==
    pc = "done" =>
        \A r \in Rows :
            LET S == PredictedAt(r.protein, r.threshold)
                B == BenchmarkTerms(r.protein)
            IN  /\ r.tp = Cardinality(S \cap B)
                /\ r.fp = Cardinality(S \ B)
                /\ r.fn = Cardinality(B \ S)

\* C4: a benchmark protein that is no key of the predictions raises no error
\* and has, at every threshold, tp = 0, fp = 0, fn = its number of distinct
\* benchmark terms, tn = term count - fn.
C4_AbsentProteinAllFalseNegatives ==
    /\ raised = None
    /\ pc = "done" =>
        \A r \in Rows :
            r.protein \notin DOMAIN prediction_dict =>
                /\ r.tp = 0
                /\ r.fp = 0
                /\ r.fn = Cardinality(BenchmarkTerms(r.protein))
                /\ r.tn = benchmark_dict.benchmark_ontology_term_count - r.fn

\* Where df.loc[protein, threshold] is a view of the frame, C2, C3 and C4 hold
\* of the returned table; they fail only where it is a copy.
ViewBuild_CountsAreWritten ==
    rowIsView => /\ C2_RowsSumToTermCount
                 /\ C3_RowsHoldSetCounts
                 /\ C4_AbsentProteinAllFalseNegatives

\* C5: for a benchmark protein and thresholds t1 < t2 of the returned table,
\* the set predicted at t2 is a subset of the set predicted at t1, and
\* fp(t2) <= fp(t1), fn(t2) >= fn(t1).
C5_MonotoneInThreshold ==
    pc = "done" =>
        \A r1, r2 \in Rows :
            (r1.protein = r2.protein /\ r1.threshold < r2.threshold) =>
                /\ PredictedAnnotations(DictGet(prediction_dict, r2.protein, EmptyDict),
                                        r2.threshold)
                     \subseteq
                   PredictedAnnotations(DictGet(prediction_dict, r1.protein, EmptyDict),
                                        r1.threshold)
                /\ r2.fp <= r1.fp
                /\ r2.fn >= r1.fn

C5_Witness ==
    /\ pc = "done"
    /\ \E r1, r2 \in Rows :
          /\ r1.protein = r2.protein
          /\ r1.threshold < r2.threshold
          /\ r2.fp < r1.fp
    /\ \E r1, r2 \in Rows :
          /\ r1.protein = r2.protein
          /\ r1.threshold < r2.threshold
          /\ r2.fn > r1.fn

\* C6: no returned row has a negative tn: a cell whose tp + fp + fn exceeds
\* the term count makes the call fail and return no table.
C6_NoNegativeTrueNegative ==
    pc = "done" => \A r \in Rows : r.tn >= 0

\* C7 as stated: a benchmark record lacking any of benchmark_ontology,
\* benchmark_ontology_term_count, benchmark_taxon, benchmark_taxon_id is
\* tolerated: no error is raised and the table is returned with the field null.
C7_MissingMetadataTolerated ==
    (MetadataFields \ DOMAIN benchmark_dict # {}) =>
        /\ raised = None
        /\ pc = "done" =>
            \A r \in Rows :
                /\ "benchmark_ontology" \notin DOMAIN benchmark_dict
                      => r.ontology = None
                /\ "benchmark_taxon" \notin DOMAIN benchmark_dict
                      => r.taxon = None
                /\ "benchmark_taxon_id" \notin DOMAIN benchmark_dict
                      => r.taxon_id = None

\* C7 amended: a missing benchmark_ontology, benchmark_taxon or
\* benchmark_taxon_id is tolerated (the column is null on every row, a present
\* field is copied).  A missing benchmark_ontology_term_count is tolerated only
\* when the table has no cell; with at least one cell the first cell raises
\* TypeError before anything is written and no table is returned.
C7_MissingMetadataAmended ==
    /\ (HasTermCount \/ NumCells = 0) =>
        /\ raised = None
        /\ pc = "done" =>
            \A r \in Rows :
                /\ r.ontology = DictGet(benchmark_dict, "benchmark_ontology", None)
                /\ r.taxon = DictGet(benchmark_dict, "benchmark_taxon", None)
                /\ IF "benchmark_taxon_id" \in DOMAIN benchmark_dict
                   THEN r.taxon_id = benchmark_dict.benchmark_taxon_id
                   ELSE r.taxon_id = None
    /\ (~HasTermCount /\ NumCells > 0) =>
        /\ pc # "done"
        /\ filled = {}
        /\ raised \in {None, "TypeError"}
        /\ pc = "raised" <=> raised = "TypeError"
        /\ pc = "fill" => ENABLED FillCell

C7_Witness ==
    /\ pc = "done"
    /\ HasTermCount
    /\ DOMAIN benchmark_dict = {"benchmark_ontology_term_count", "protein_annotations"}
    /\ Len(protein_and_threshold_df) >= 2
    /\ \A r \in Rows : r.ontology = None /\ r.taxon = None /\ r.taxon_id = None

\* C8: with no threshold (no protein has any score) or no benchmark protein,
\* the initializer and the whole call raise no error and give zero rows.
C8_EmptyInputsGiveEmptyTable ==
    (ObservedScores = {} \/ BenchmarkProteinSet = {}) =>
        /\ raised = None
        /\ pc # "raised"
        /\ Len(protein_and_threshold_df) = 0

C8_Witness ==
    /\ pc = "done"
    /\ ObservedScores = {}
    /\ BenchmarkProteinSet # {}
    /\ DOMAIN prediction_dict # {}
    /\ Len(protein_and_threshold_df) = 0

\* C9: each cell is computed from the read-only inputs alone and touches only
\* the row of its own key, so the table after filling the cells in any order
\* is the table of the sequential threshold-outer, protein-inner loop.
C9_AnyOrderSameTable ==
    /\ pc = "fill" =>
        \A r \in Rows :
            IF <<r.protein, r.threshold>> \in filled /\ rowIsView
            THEN LET v == CellValues(prediction_dict, benchmark_dict,
                                     r.protein, r.threshold).value
                 IN  r.tp = v.tp /\ r.fp = v.fp /\ r.fn = v.fn /\ r.tn = v.tn
            ELSE r.tp = 0 /\ r.fp = 0 /\ r.fn = 0 /\ r.tn = 0
    /\ pc = "done" =>
        /\ filled = Cells
        /\ Return(protein_and_threshold_df) =
             get_confusion_matrix_dataframe(prediction_dict, benchmark_dict, rowIsView)

C9_Witness ==
    /\ pc = "fill"
    /\ rowIsView
    /\ Cardinality(Cells) >= 4
    /\ Cardinality(filled) = 2
    /\ <<benchmark_proteins[1], distinct_prediction_thresholds[1]>> \notin filled
    /\ \A key \in filled :
          \E r \in Rows : /\ <<r.protein, r.threshold>> = key
                          /\ r.tp > 0
                          /\ r.fp > 0

\* C10: for duplicate-free, non-empty proteins (length P) and thresholds
\* (length T) the initializer returns P*T rows, row i (0-based) keyed
\* (proteins[i div T], thresholds[i mod T]), with tp = fp = fn = tn = 0, and
\* never indexes past the last protein.
C10_InitializerRowOrder ==
    LET P == Len(benchmark_proteins)
        T == Len(distinct_prediction_thresholds)
    IN  (/\ pc # "call_initializer"
         /\ P > 0
         /\ T > 0
         /\ IsInjective(benchmark_proteins)
         /\ IsInjective(distinct_prediction_thresholds)) =>
            /\ pc = "initializer_returned"
            /\ raised = None
            /\ Len(protein_and_threshold_df) = P * T
            /\ \A i \in 0..(P * T - 1) :
                  LET r == protein_and_threshold_df[i + 1]
                  IN  /\ r.protein = benchmark_proteins[(i \div T) + 1]
                      /\ r.threshold = distinct_prediction_thresholds[(i % T) + 1]
                      /\ r.tp = 0 /\ r.fp = 0 /\ r.fn = 0 /\ r.tn = 0

C10_Witness ==
    /\ pc = "initializer_returned"
    /\ Len(benchmark_proteins) = 2
    /\ Len(distinct_prediction_thresholds) = 2
    /\ IsInjective(benchmark_proteins)
    /\ distinct_prediction_thresholds[1] > distinct_prediction_thresholds[2]
    /\ Len(protein_and_threshold_df) = 4
    /\ protein_and_threshold_df[3].protein = benchmark_proteins[2]

====
